---- MODULE Spec2Model ----
(***************************************************************************)
(* Model of simple_hyperliquid_bot/simple_hl_bot.py: the Donchian breakout *)
(* bot.  One step of the model is one iteration of the main loop           *)
(* (lines 351-357): a call of run_trading_strategy inside try/except,      *)
(* followed by the loop's sleep.  The exchange is the environment: what    *)
(* it reports (account state, mid price, market metadata, order            *)
(* responses) is chosen nondeterministically in every iteration.           *)
(*                                                                         *)
(* Units.  Prices and balances are whole numbers.  avgPx, the fill price   *)
(* the exchange reports as a decimal string, is counted in halves          *)
(* (avgPx2 = 2 * avgPx) so that int(float(avgPx)) truncates something.     *)
(* Order sizes are counted in units of 0.00001 (the 5 decimals that        *)
(* calculate_position_size rounds to), so 0.001 is 100.                    *)
(***************************************************************************)
EXTENDS Integers, Sequences, FiniteSets, TLC

\* ---------------------------------------------------------------- constants
RISK_PER_TRADE_PERCENT == 2
RISK_REWARD_RATIO == 2
STOP_LOSS_PERCENT == 1
TAKE_PROFIT_PERCENT == STOP_LOSS_PERCENT * RISK_REWARD_RATIO
DON_MAX_PERIOD == 12
REQUEST_INTERVAL_SECONDS == 30
\* min_position_size = 0.001, in units of 0.00001
MIN_POSITION_SIZE == 100
\* round(position_size, 5)
SIZE_DIGITS == 5

\* ------------------------------------------------------------------- bounds
\* mid prices the exchange reports: 0..MaxPrice
MaxPrice == 2
\* how many times the mid price differs from the previously fetched one
MaxMoves == 2
\* account values the exchange reports: 0..MaxBalance
MaxBalance == 1
\* szDecimals the market metadata reports: 0..MaxSzDecimals
MaxSzDecimals == 5
\* fill prices the exchange reports, in halves: 2..MaxAvgPx2
MaxAvgPx2 == 3
\* fill prices, in whole units, that buy and sell are applied to on their
\* own (TradeSpec): 0.5, 1, 1.5, ... up to MaxFillPx + 0.5
MaxFillPx == 110

Prices == 0..MaxPrice
Balances == 0..MaxBalance

VARIABLES
    pc,              \* "call": line 353 is next; "sleep": line 357 is next
    last_prices,     \* the deque of line 348
    window_before,   \* last_prices as it was when the iteration started
    mid,             \* the mid price of the asset at the exchange
    moves,           \* number of changes of mid so far
    branch,          \* the path the last iteration took
    current_price,   \* current_price of the last iteration
    position,        \* the asset's entry in assetPositions, last iteration
    orders,          \* orders submitted to the exchange in the last iteration
    ret,             \* what buy / sell returned in the last iteration
    raised,          \* an exception escaped run_trading_strategy
    clears,          \* calls of last_prices.clear() in the last iteration
    sleeps           \* calls of time.sleep inside run_trading_strategy

vars == <<pc, last_prices, window_before, mid, moves, branch, current_price,
          position, orders, ret, raised, clears, sleeps>>

\* ------------------------------------------------------------- pure helpers
RECURSIVE SeqMax(_)
SeqMax(s) ==
    IF Len(s) = 1 THEN s[1]
    ELSE LET m == SeqMax(Tail(s)) IN IF s[1] > m THEN s[1] ELSE m

RECURSIVE SeqMin(_)
SeqMin(s) ==
    IF Len(s) = 1 THEN s[1]
    ELSE LET m == SeqMin(Tail(s)) IN IF s[1] < m THEN s[1] ELSE m

RECURSIVE Pow10(_)
Pow10(n) == IF n = 0 THEN 1 ELSE 10 * Pow10(n - 1)

\* Python's round(): to the nearest, ties to even; num / den with den > 0
RoundHalfEven(num, den) ==
    LET q == num \div den
        r == num % den
    IN IF 2 * r < den THEN q
       ELSE IF 2 * r > den THEN q + 1
       ELSE IF q % 2 = 0 THEN q ELSE q + 1

\* a variant that drops the newest price of a full window, not the oldest
DequeAppend_drop_newest(q, x) ==
    IF Len(q) < DON_MAX_PERIOD THEN Append(q, x)
    ELSE Append(SubSeq(q, 1, Len(q) - 1), x)

\* collections.deque(maxlen=DON_MAX_PERIOD).append
DequeAppend(q, x) ==
    IF Len(q) < DON_MAX_PERIOD THEN Append(q, x) ELSE Append(Tail(q), x)

\* int(float(avgPx)): truncation of the reported fill price (lines 113, 213)
IntOfAvgPx(avgPx2) == avgPx2 \div 2

\* int(entry_price * (1 - pct / 100))
PriceBelow(entry_price, pct) == (entry_price * (100 - pct)) \div 100

\* a variant that divides the percentage as an integer
PriceAbove_int_percent(entry_price, pct) == entry_price * (1 + pct \div 100)

\* int(entry_price * (1 + pct / 100))
PriceAbove(entry_price, pct) == (entry_price * (100 + pct)) \div 100

\* round(position_size, sz_decimals), sizes in units of 0.00001
RoundSize(position_size, sz_decimals) ==
    IF sz_decimals >= SIZE_DIGITS THEN position_size
    ELSE LET unit == Pow10(SIZE_DIGITS - sz_decimals)
         IN RoundHalfEven(position_size, unit) * unit

\* ------------------------------------------------- what the exchange answers
NoPosition == [found |-> FALSE, szi |-> 0]
Positions == {NoPosition} \cup {[found |-> TRUE, szi |-> z] : z \in {-1, 0, 1}}

\* get_market_info: the asset's metadata, or the lookup raises
MarketInfos ==
    {[found |-> FALSE, szDecimals |-> 0]}
        \cup {[found |-> TRUE, szDecimals |-> d] : d \in 0..MaxSzDecimals}

\* client.market_open: status not ok (or the call raises), a response without
\* response/data/statuses, a status entry without a fill, or a fill at avgPx
EntryResponses ==
    {[kind |-> k, avgPx2 |-> 0] : k \in {"notok", "malformed", "unfilled"}}
        \cup {[kind |-> "filled", avgPx2 |-> a] : a \in 2..MaxAvgPx2}

\* client.order for a trigger order: accepted, status not ok (or the call
\* raises), or status ok with an error in the order's own status entry
ExitResponses == {"ok", "notok", "error"}

\* what the exchange did with the order
EntryAccepted(resp) == resp.kind = "filled"
ExitAccepted(resp) == resp = "ok"

\* a variant that checks the status only
EntryRaises_status_only(resp) == resp.kind = "notok"

\* lines 105-113: the checks of buy / sell on the entry response; reading
\* ['filled']['avgPx'] raises KeyError when the status entry holds no fill
EntryRaises(resp) ==
    \/ resp.kind = "notok"
    \/ resp.kind = "malformed"
    \/ resp.kind = "unfilled"

\* ---------------------------------------------------------------- the orders
\* client.market_open(name, is_buy, sz), with the exchange's answer: whether
\* it filled the order, and at which avgPx
MarketOrder(is_buy, sz, resp) ==
    [kind |-> "market", is_buy |-> is_buy, sz |-> sz, px |-> 0,
     reduce_only |-> FALSE, is_market |-> TRUE, tpsl |-> "none",
     accepted |-> EntryAccepted(resp), avgPx2 |-> resp.avgPx2]

\* a variant without reduce_only
TriggerOrder_not_reduce_only(is_buy, sz, px, tpsl, resp) ==
    [kind |-> "trigger", is_buy |-> is_buy, sz |-> sz, px |-> px,
     reduce_only |-> FALSE, is_market |-> TRUE, tpsl |-> tpsl,
     accepted |-> ExitAccepted(resp), avgPx2 |-> 0]

\* client.order(asset, is_buy, sz, limit_px, reduce_only=True, order_type=
\* {"trigger": {"triggerPx": limit_px, "isMarket": True, "tpsl": tpsl}})
TriggerOrder(is_buy, sz, px, tpsl, resp) ==
    [kind |-> "trigger", is_buy |-> is_buy, sz |-> sz, px |-> px,
     reduce_only |-> TRUE, is_market |-> TRUE, tpsl |-> tpsl,
     accepted |-> ExitAccepted(resp), avgPx2 |-> 0]

\* a variant that reports a rejected stop-loss without raising
place_stop_loss_silent(position_size, stop_price, is_buy, resp) ==
    [order |-> TriggerOrder(is_buy, position_size, stop_price, "sl", resp),
     raised |-> FALSE]

\* place_stop_loss: the order it submits, and whether it raises (lines 147-152)
place_stop_loss(position_size, stop_price, is_buy, resp) ==
    [order |-> TriggerOrder(is_buy, position_size, stop_price, "sl", resp),
     raised |-> resp = "notok" \/ resp = "error"]

\* a variant that never raises
place_take_profit_silent(position_size, take_profit_price, is_buy, resp) ==
    [order |-> TriggerOrder(is_buy, position_size, take_profit_price, "tp", resp),
     raised |-> FALSE]

\* a variant without the check of the order's own status entry
place_take_profit_status_only(position_size, take_profit_price, is_buy, resp) ==
    [order |-> TriggerOrder(is_buy, position_size, take_profit_price, "tp", resp),
     raised |-> resp = "notok"]

\* place_take_profit: the same with the tp tag (lines 172-177)
place_take_profit(position_size, take_profit_price, is_buy, resp) ==
    [order |-> TriggerOrder(is_buy, position_size, take_profit_price, "tp", resp),
     raised |-> resp = "notok" \/ resp = "error"]

\* calculate_position_size.  With current_price = 0 (or STOP_LOSS_PERCENT = 0)
\* the ValueError of lines 54-58 is caught at line 75, and the handler's
\* `return min_position_size` reads a local that line 68 has not assigned yet:
\* UnboundLocalError leaves the function.
calculate_position_size(balance, price) ==
    IF STOP_LOSS_PERCENT = 0 \/ price = 0
    THEN [raised |-> TRUE, size |-> 0]
    ELSE LET num == 100000 * balance * RISK_PER_TRADE_PERCENT
             den == price * STOP_LOSS_PERCENT
         IN [raised |-> FALSE,
             size |-> IF num < MIN_POSITION_SIZE * den
                      THEN MIN_POSITION_SIZE
                      ELSE RoundHalfEven(num, den)]

\* a variant that closes the position when an exit order is rejected
buy_with_rollback(market_info, position_size, entry, sl, tp) ==
    IF ~market_info.found \/ position_size <= 0
    THEN [orders |-> <<>>, ret |-> "False"]
    ELSE LET sz == RoundSize(position_size, market_info.szDecimals)
             order == MarketOrder(TRUE, sz, entry)
             close == MarketOrder(FALSE, sz, [kind |-> "filled", avgPx2 |-> 2])
         IN IF EntryRaises(entry)
            THEN [orders |-> <<order>>, ret |-> "False"]
            ELSE LET entry_price == IntOfAvgPx(entry.avgPx2)
                     stop_loss_price == PriceBelow(entry_price, STOP_LOSS_PERCENT)
                     take_profit_price == PriceAbove(entry_price, TAKE_PROFIT_PERCENT)
                     stop_loss == place_stop_loss(sz, stop_loss_price, FALSE, sl)
                     take_profit == place_take_profit(sz, take_profit_price, FALSE, tp)
                 IN IF stop_loss.raised
                    THEN [orders |-> <<order, stop_loss.order, close>>,
                          ret |-> "False"]
                    ELSE IF take_profit.raised
                    THEN [orders |-> <<order, stop_loss.order, take_profit.order,
                                       close>>,
                          ret |-> "False"]
                    ELSE [orders |-> <<order, stop_loss.order, take_profit.order>>,
                          ret |-> "True"]

\* buy: the orders it submits, in order, and the value it returns.  Every
\* exception inside is caught at line 128 and turns into False.
buy(market_info, position_size, entry, sl, tp) ==
    IF ~market_info.found \/ position_size <= 0
    THEN [orders |-> <<>>, ret |-> "False"]
    ELSE LET sz == RoundSize(position_size, market_info.szDecimals)
             order == MarketOrder(TRUE, sz, entry)
         IN IF EntryRaises(entry)
            THEN [orders |-> <<order>>, ret |-> "False"]
            ELSE LET entry_price == IntOfAvgPx(entry.avgPx2)
                     stop_loss_price == PriceBelow(entry_price, STOP_LOSS_PERCENT)
                     take_profit_price == PriceAbove(entry_price, TAKE_PROFIT_PERCENT)
                     stop_loss == place_stop_loss(sz, stop_loss_price, FALSE, sl)
                     take_profit == place_take_profit(sz, take_profit_price, FALSE, tp)
                 IN IF stop_loss.raised
                    THEN [orders |-> <<order, stop_loss.order>>, ret |-> "False"]
                    ELSE IF take_profit.raised
                    THEN [orders |-> <<order, stop_loss.order, take_profit.order>>,
                          ret |-> "False"]
                    ELSE [orders |-> <<order, stop_loss.order, take_profit.order>>,
                          ret |-> "True"]

\* sell: the mirror image of buy
sell(market_info, position_size, entry, sl, tp) ==
    IF ~market_info.found \/ position_size <= 0
    THEN [orders |-> <<>>, ret |-> "False"]
    ELSE LET sz == RoundSize(position_size, market_info.szDecimals)
             order == MarketOrder(FALSE, sz, entry)
         IN IF EntryRaises(entry)
            THEN [orders |-> <<order>>, ret |-> "False"]
            ELSE LET entry_price == IntOfAvgPx(entry.avgPx2)
                     stop_loss_price == PriceAbove(entry_price, STOP_LOSS_PERCENT)
                     stop_loss == place_stop_loss(sz, stop_loss_price, TRUE, sl)
                     take_profit_price == PriceBelow(entry_price, TAKE_PROFIT_PERCENT)
                     take_profit == place_take_profit(sz, take_profit_price, TRUE, tp)
                 IN IF stop_loss.raised
                    THEN [orders |-> <<order, stop_loss.order>>, ret |-> "False"]
                    ELSE IF take_profit.raised
                    THEN [orders |-> <<order, stop_loss.order, take_profit.order>>,
                          ret |-> "False"]
                    ELSE [orders |-> <<order, stop_loss.order, take_profit.order>>,
                          ret |-> "True"]

\* a variant that takes only a long position for an open one
HasOpenPosition_long_only(pos) == pos.found /\ pos.szi > 0

\* line 252: `position and float(position['position']['szi']) != 0`
HasOpenPosition(pos) == pos.found /\ pos.szi # 0

\* lines 279-280, 294 and 300: the decision in the else branch of line 273
Signal(window, price) ==
    IF price > SeqMax(window) THEN "LONG"
    ELSE IF price < SeqMin(window) THEN "SHORT"
    ELSE "NONE"

\* a variant that is off by one
Collecting_off_by_one(window) == Len(window) < DON_MAX_PERIOD - 1

\* line 273: still collecting prices
Collecting(window) == Len(window) < DON_MAX_PERIOD

\* a variant that clears the window only when buy / sell returned True
Analyze_clear_on_success(window, price, position_size, market_info, entry, sl, tp) ==
    LET sig == Signal(window, price)
        r == IF sig = "LONG"
             THEN buy(market_info, position_size, entry, sl, tp)
             ELSE sell(market_info, position_size, entry, sl, tp)
        ok == r.ret = "True"
    IN IF sig = "NONE"
       THEN [branch |-> "no_signal", orders |-> <<>>, ret |-> "None",
             clears |-> 0, last_prices |-> DequeAppend(window, price)]
       ELSE [branch |-> IF sig = "LONG" THEN "long" ELSE "short",
             orders |-> r.orders, ret |-> r.ret,
             clears |-> IF ok THEN 1 ELSE 0,
             last_prices |-> DequeAppend(IF ok THEN <<>> ELSE window, price)]

\* a variant that returns right after the clear, without the append of line 307
Analyze_no_append(window, price, position_size, market_info, entry, sl, tp) ==
    LET sig == Signal(window, price)
        r == IF sig = "LONG"
             THEN buy(market_info, position_size, entry, sl, tp)
             ELSE sell(market_info, position_size, entry, sl, tp)
    IN IF sig = "NONE"
       THEN [branch |-> "no_signal", orders |-> <<>>, ret |-> "None",
             clears |-> 0, last_prices |-> DequeAppend(window, price)]
       ELSE [branch |-> IF sig = "LONG" THEN "long" ELSE "short",
             orders |-> r.orders, ret |-> r.ret,
             clears |-> 1, last_prices |-> <<>>]

\* a variant that clears the window in every analysis, signal or not
Analyze_clear_always(window, price, position_size, market_info, entry, sl, tp) ==
    LET sig == Signal(window, price)
        r == IF sig = "LONG"
             THEN buy(market_info, position_size, entry, sl, tp)
             ELSE sell(market_info, position_size, entry, sl, tp)
    IN IF sig = "NONE"
       THEN [branch |-> "no_signal", orders |-> <<>>, ret |-> "None",
             clears |-> 1, last_prices |-> DequeAppend(<<>>, price)]
       ELSE [branch |-> IF sig = "LONG" THEN "long" ELSE "short",
             orders |-> r.orders, ret |-> r.ret,
             clears |-> 1, last_prices |-> DequeAppend(<<>>, price)]

\* lines 294-307: what the analysis branch does once the size is known.  The
\* value buy / sell return is dropped (lines 297, 303); clear() and the
\* append of line 307 follow whatever it was.
Analyze(window, price, position_size, market_info, entry, sl, tp) ==
    LET sig == Signal(window, price)
    IN IF sig = "LONG"
       THEN LET r == buy(market_info, position_size, entry, sl, tp)
            IN [branch |-> "long", orders |-> r.orders, ret |-> r.ret,
                clears |-> 1, last_prices |-> DequeAppend(<<>>, price)]
       ELSE IF sig = "SHORT"
       THEN LET r == sell(market_info, position_size, entry, sl, tp)
            IN [branch |-> "short", orders |-> r.orders, ret |-> r.ret,
                clears |-> 1, last_prices |-> DequeAppend(<<>>, price)]
       ELSE [branch |-> "no_signal", orders |-> <<>>, ret |-> "None",
             clears |-> 0, last_prices |-> DequeAppend(window, price)]

\* -------------------------------------------------------------- environment
\* info.all_mids() reports price p: the mid price moved, or stayed
MidIs(p) ==
    /\ mid' = p
    /\ \/ p = mid /\ moves' = moves
       \/ p # mid /\ moves < MaxMoves /\ moves' = moves + 1

\* The responses the exchange gives to the calls buy / sell make.  A call that
\* is not made has no response: one placeholder stands for it.
IdleInfo == [found |-> FALSE, szDecimals |-> 0]
IdleEntry == [kind |-> "notok", avgPx2 |-> 0]
InfosFor(sig) == IF sig = "NONE" THEN {IdleInfo} ELSE MarketInfos
EntriesFor(market_info) ==
    IF market_info.found THEN EntryResponses ELSE {IdleEntry}
ExitsFor(entry) == IF entry.kind = "filled" THEN ExitResponses ELSE {"ok"}

\* --------------------------------------------------------------------- Init
Init ==
    /\ pc = "call"
    /\ last_prices = <<>>
    /\ window_before = <<>>
    /\ mid \in Prices
    /\ moves = 0
    /\ branch = "idle"
    /\ current_price = 0
    /\ position = NoPosition
    /\ orders = <<>>
    /\ ret = "None"
    /\ raised = FALSE
    /\ clears = 0
    /\ sleeps = 0

\* ------------------------------------------------------ one loop iteration
\* The call of line 353, one action for each path through
\* run_trading_strategy; pc moves on to the sleep of line 357.

\* lines 243-250 raise: user_state or all_mids fails, or a field is missing
FetchError ==
    /\ pc = "call"
    /\ pc' = "sleep"
    /\ \E pos \in Positions : position' = pos
    /\ window_before' = last_prices
    /\ branch' = "fetch_error"
    /\ orders' = <<>>
    /\ ret' = "None"
    /\ raised' = TRUE
    /\ clears' = 0
    /\ sleeps' = 0
    /\ UNCHANGED <<last_prices, mid, moves, current_price>>

\* a variant that appends the price before it looks at the position
OpenPosition_appends ==
    /\ pc = "call"
    /\ pc' = "sleep"
    /\ \E pos \in Positions, p \in Prices, balance \in Balances :
        /\ HasOpenPosition(pos)
        /\ MidIs(p)
        /\ position' = pos
        /\ current_price' = p
        /\ window_before' = last_prices
        /\ branch' = "open_position"
        /\ orders' = <<>>
        /\ ret' = "None"
        /\ raised' = (balance = 0)
        /\ clears' = 0
        /\ sleeps' = IF balance = 0 THEN 0 ELSE 1
        /\ last_prices' = DequeAppend(last_prices, p)

\* lines 252-270: an open position is reported.  pnl_percent divides by the
\* balance: ZeroDivisionError when the account value is 0.
OpenPosition ==
    /\ pc = "call"
    /\ pc' = "sleep"
    /\ \E pos \in Positions, p \in Prices, balance \in Balances :
        /\ HasOpenPosition(pos)
        /\ MidIs(p)
        /\ position' = pos
        /\ current_price' = p
        /\ window_before' = last_prices
        /\ branch' = "open_position"
        /\ orders' = <<>>
        /\ ret' = "None"
        /\ raised' = (balance = 0)
        /\ clears' = 0
        /\ sleeps' = IF balance = 0 THEN 0 ELSE 1
        /\ UNCHANGED last_prices

\* lines 273-277 and 307: the window is not full yet
CollectingPrices ==
    /\ pc = "call"
    /\ pc' = "sleep"
    /\ Collecting(last_prices)
    /\ \E pos \in Positions, p \in Prices :
        /\ ~HasOpenPosition(pos)
        /\ MidIs(p)
        /\ position' = pos
        /\ current_price' = p
        /\ window_before' = last_prices
        /\ branch' = "collecting"
        /\ orders' = <<>>
        /\ ret' = "None"
        /\ raised' = FALSE
        /\ clears' = 0
        /\ sleeps' = 0
        /\ last_prices' = DequeAppend(last_prices, p)

\* a variant that appends the price before it computes the size
SizingError_after_append ==
    /\ pc = "call"
    /\ pc' = "sleep"
    /\ ~Collecting(last_prices)
    /\ \E pos \in Positions, p \in Prices, balance \in Balances :
        /\ ~HasOpenPosition(pos)
        /\ calculate_position_size(balance, p).raised
        /\ MidIs(p)
        /\ position' = pos
        /\ current_price' = p
        /\ window_before' = last_prices
        /\ branch' = "sizing_error"
        /\ orders' = <<>>
        /\ ret' = "None"
        /\ raised' = TRUE
        /\ clears' = 0
        /\ sleeps' = 0
        /\ last_prices' = DequeAppend(last_prices, p)

\* line 289 raises: the exception leaves run_trading_strategy
SizingError ==
    /\ pc = "call"
    /\ pc' = "sleep"
    /\ ~Collecting(last_prices)
    /\ \E pos \in Positions, p \in Prices, balance \in Balances :
        /\ ~HasOpenPosition(pos)
        /\ calculate_position_size(balance, p).raised
        /\ MidIs(p)
        /\ position' = pos
        /\ current_price' = p
        /\ window_before' = last_prices
        /\ branch' = "sizing_error"
        /\ orders' = <<>>
        /\ ret' = "None"
        /\ raised' = TRUE
        /\ clears' = 0
        /\ sleeps' = 0
        /\ UNCHANGED last_prices

\* lines 279-307: the window is full and the size was computed
Analyzing ==
    /\ pc = "call"
    /\ pc' = "sleep"
    /\ ~Collecting(last_prices)
    /\ \E pos \in Positions, p \in Prices, balance \in Balances :
        /\ ~HasOpenPosition(pos)
        /\ ~calculate_position_size(balance, p).raised
        /\ MidIs(p)
        /\ LET sig == Signal(last_prices, p)
           IN \E market_info \in InfosFor(sig) :
                \E entry \in EntriesFor(market_info) :
                \E sl \in ExitsFor(entry), tp \in ExitsFor(entry) :
                   LET r == Analyze(last_prices, p,
                                    calculate_position_size(balance, p).size,
                                    market_info, entry, sl, tp)
                   IN /\ branch' = r.branch
                      /\ orders' = r.orders
                      /\ ret' = r.ret
                      /\ clears' = r.clears
                      /\ last_prices' = r.last_prices
        /\ position' = pos
        /\ current_price' = p
        /\ window_before' = last_prices
        /\ raised' = FALSE
        /\ sleeps' = 0

\* a variant in which the exception is not caught: the loop ends with it
Sleep_unless_raised ==
    /\ pc = "sleep"
    /\ ~raised
    /\ pc' = "call"
    /\ window_before' = <<>>
    /\ branch' = "idle"
    /\ current_price' = 0
    /\ position' = NoPosition
    /\ orders' = <<>>
    /\ ret' = "None"
    /\ raised' = FALSE
    /\ clears' = 0
    /\ sleeps' = 0
    /\ UNCHANGED <<last_prices, mid, moves>>

\* lines 354-357: the except clause catches what run_trading_strategy raised,
\* then the loop's own sleep, after which the next iteration starts and
\* the locals of the finished one are gone
Sleep ==
    /\ pc = "sleep"
    /\ pc' = "call"
    /\ window_before' = <<>>
    /\ branch' = "idle"
    /\ current_price' = 0
    /\ position' = NoPosition
    /\ orders' = <<>>
    /\ ret' = "None"
    /\ raised' = FALSE
    /\ clears' = 0
    /\ sleeps' = 0
    /\ UNCHANGED <<last_prices, mid, moves>>

Next ==
    \/ FetchError
    \/ OpenPosition
    \/ CollectingPrices
    \/ SizingError
    \/ Analyzing
    \/ Sleep

Spec == Init /\ [][Next]_vars

\* buy and sell on their own: each is applied to every fill price up to
\* MaxFillPx and every answer to the exit orders, with the asset's metadata
\* found and the minimum size.
FillPrices2 == 1..(2 * MaxFillPx + 1)
TradeInfo == [found |-> TRUE, szDecimals |-> SIZE_DIGITS]

BuyCall ==
    /\ pc = "call"
    /\ pc' = "sleep"
    /\ \E a \in FillPrices2, sl \in ExitResponses :
         \E tp \in (IF sl = "ok" THEN ExitResponses ELSE {"ok"}) :
            LET r == buy(TradeInfo, MIN_POSITION_SIZE,
                         [kind |-> "filled", avgPx2 |-> a], sl, tp)
            IN /\ orders' = r.orders
               /\ ret' = r.ret
    /\ branch' = "long"
    /\ UNCHANGED <<last_prices, window_before, mid, moves, current_price,
                   position, raised, clears, sleeps>>

SellCall ==
    /\ pc = "call"
    /\ pc' = "sleep"
    /\ \E a \in FillPrices2, sl \in ExitResponses :
         \E tp \in (IF sl = "ok" THEN ExitResponses ELSE {"ok"}) :
            LET r == sell(TradeInfo, MIN_POSITION_SIZE,
                          [kind |-> "filled", avgPx2 |-> a], sl, tp)
            IN /\ orders' = r.orders
               /\ ret' = r.ret
    /\ branch' = "short"
    /\ UNCHANGED <<last_prices, window_before, mid, moves, current_price,
                   position, raised, clears, sleeps>>

TradeNext ==
    \/ BuyCall
    \/ SellCall
    \/ Sleep

TradeSpec == Init /\ [][TradeNext]_vars

\* line 353: the call of run_trading_strategy, whatever path it takes
RunIteration ==
    \/ FetchError
    \/ OpenPosition
    \/ CollectingPrices
    \/ SizingError
    \/ Analyzing

\* ------------------------------------------------------------------- claims
\* The iteration just run was a trade attempt: buy or sell was called.
Attempt == branch \in {"long", "short"}

\* The entry market order of the attempt was accepted (filled).
EntryWasAccepted == Len(orders) >= 1 /\ orders[1].accepted

\* An exit order of the attempt was submitted and rejected.
ExitWasRejected ==
    \E i \in 1..Len(orders) : orders[i].kind = "trigger" /\ ~orders[i].accepted

TakeProfitSubmitted == \E i \in 1..Len(orders) : orders[i].tpsl = "tp"

StopLossAccepted ==
    \E i \in 1..Len(orders) : orders[i].tpsl = "sl" /\ orders[i].accepted

\* C1, as stated: in every trade attempt whose entry order was accepted a
\* take-profit order is submitted, whether or not the stop-loss was accepted.
C1_TakeProfitAfterEveryAcceptedEntry ==
    (Attempt /\ EntryWasAccepted) => TakeProfitSubmitted

\* C1, amended: a take-profit order is submitted exactly in the attempts whose
\* entry order and stop-loss order were both accepted; a rejected stop-loss
\* prevents the take-profit as an entry failure does.
C1_TakeProfitOnlyAfterStopLoss ==
    Attempt => (TakeProfitSubmitted <=> (EntryWasAccepted /\ StopLossAccepted))

\* entry accepted, stop-loss rejected, and no take-profit followed
C1_Witness ==
    /\ Attempt
    /\ Len(orders) = 2
    /\ orders[1].accepted
    /\ orders[2].tpsl = "sl"
    /\ ~orders[2].accepted

\* the values buy and sell hand back when the entry order is rejected
RetOfRejectedEntry ==
    {buy(m, MIN_POSITION_SIZE, e, "ok", "ok").ret :
        m \in {i \in MarketInfos : i.found},
        e \in {r \in EntryResponses : ~EntryAccepted(r)}}
    \cup
    {sell(m, MIN_POSITION_SIZE, e, "ok", "ok").ret :
        m \in {i \in MarketInfos : i.found},
        e \in {r \in EntryResponses : ~EntryAccepted(r)}}

\* C2, as stated: an attempt whose entry was accepted and one of whose exit
\* orders was rejected hands back a value that an attempt with a rejected
\* entry does not hand back.
C2_UnprotectedIsDistinct ==
    (Attempt /\ EntryWasAccepted /\ ExitWasRejected)
        => ret \notin RetOfRejectedEntry

\* C2, amended: an attempt whose entry was accepted and one of whose exit
\* orders was rejected hands back False, the same value as an attempt whose
\* entry was rejected.
C2_UnprotectedReturnsFalse ==
    (Attempt /\ EntryWasAccepted /\ ExitWasRejected)
        => (ret = "False" /\ ret \in RetOfRejectedEntry)

\* an open position without its take-profit
C2_Witness ==
    /\ Attempt
    /\ Len(orders) = 3
    /\ orders[1].accepted
    /\ orders[2].accepted
    /\ ~orders[3].accepted

\* C3, as stated: after a signal cycle whose trade attempt failed the window
\* was not cleared and still holds its DON_MAX_PERIOD prices.
C3_FailedTradeKeepsWindow ==
    (Attempt /\ ret = "False")
        => (clears = 0 /\ Len(last_prices) = DON_MAX_PERIOD)

\* C3, amended: after a signal cycle whose trade attempt failed the window was
\* cleared as after a successful one: the next cycle starts with a window
\* that holds the price of the failed cycle and nothing else.
C3_FailedTradeClearsWindow ==
    (Attempt /\ ret = "False")
        => (clears = 1 /\ last_prices = <<current_price>>)

\* a failed attempt on a full window
C3_Witness ==
    /\ pc = "sleep"
    /\ Attempt
    /\ ret = "False"
    /\ Len(window_before) = DON_MAX_PERIOD

\* C4, as stated: after a cycle whose trade attempt succeeded the window is
\* empty.
C4_SuccessfulTradeLeavesEmptyWindow ==
    (Attempt /\ ret = "True") => Len(last_prices) = 0

\* C4, amended: after a cycle whose trade attempt succeeded the window holds
\* exactly one price, the price that triggered the trade.
C4_SuccessfulTradeLeavesTriggerPrice ==
    (Attempt /\ ret = "True") => last_prices = <<current_price>>

\* a successful attempt
C4_Witness ==
    /\ pc = "sleep"
    /\ Attempt
    /\ ret = "True"
    /\ Len(window_before) = DON_MAX_PERIOD

\* C5: the orders of an iteration are, in this order, the entry market order,
\* the stop-loss trigger order and the take-profit trigger order, and an exit
\* order is submitted only after an accepted entry.
C5_SubmissionOrder ==
    /\ Len(orders) <= 3
    /\ Len(orders) >= 1 => orders[1].kind = "market"
    /\ Len(orders) >= 2 =>
          (orders[2].kind = "trigger" /\ orders[2].tpsl = "sl")
    /\ Len(orders) >= 3 =>
          (orders[3].kind = "trigger" /\ orders[3].tpsl = "tp")
    /\ \A i \in 1..Len(orders) :
          orders[i].kind = "trigger" => orders[1].accepted

\* entry, stop-loss and take-profit were all submitted
C5_Witness ==
    /\ Attempt
    /\ Len(orders) = 3
    /\ orders[1].kind = "market"
    /\ orders[2].tpsl = "sl"
    /\ orders[3].tpsl = "tp"

\* C6: buy and sell return True exactly when the entry order, the stop-loss
\* order and the take-profit order were all three accepted, and False else.
C6_TrueIffAllAccepted ==
    Attempt =>
        /\ ret \in {"True", "False"}
        /\ ret = "True" <=>
              (Len(orders) = 3 /\ \A i \in 1..3 : orders[i].accepted)

\* all three orders accepted
C6_Witness ==
    /\ Attempt
    /\ ret = "True"
    /\ Len(orders) = 3

\* C7: an iteration submits at most one market order, and nothing follows a
\* rejected exit order: no order closes the position the entry opened.
C7_NoCompensatingOrder ==
    /\ Cardinality({i \in 1..Len(orders) : orders[i].kind = "market"}) <= 1
    /\ \A i \in 1..Len(orders) :
          (orders[i].kind = "trigger" /\ ~orders[i].accepted)
              => i = Len(orders)

\* the entry was accepted and the last order, an exit, was rejected
C7_Witness ==
    /\ Attempt
    /\ EntryWasAccepted
    /\ ExitWasRejected
    /\ ~orders[Len(orders)].accepted

\* C8: an iteration in which the account state reports a position of nonzero
\* size submits no order, and a reported position of size zero does not make
\* the iteration take the open-position branch.
C8_OpenPositionNoOrders ==
    /\ (position.found /\ position.szi # 0) =>
          (orders = <<>> /\ branch \in {"open_position", "fetch_error"})
    /\ (position.found /\ position.szi = 0) => branch # "open_position"

\* a position is open while the price breaks out of a full window
C8_Witness ==
    /\ branch = "open_position"
    /\ position.szi # 0
    /\ Len(window_before) = DON_MAX_PERIOD
    /\ current_price > SeqMax(window_before)

\* C9: an iteration that starts with fewer than DON_MAX_PERIOD prices in the
\* window makes no trade attempt and submits no order, whatever the price.
C9_NoTradeWhileCollecting ==
    (pc = "sleep" /\ Len(window_before) < DON_MAX_PERIOD)
        => (orders = <<>> /\ ~Attempt)

\* one price short of full, and the price is above all the collected ones
C9_Witness ==
    /\ branch = "collecting"
    /\ Len(window_before) = DON_MAX_PERIOD - 1
    /\ current_price > SeqMax(window_before)

\* C10: with a full window and no open position the iteration buys exactly
\* when the price is above the maximum of the window as it was before the
\* iteration, and sells exactly when the price is below its minimum.
C10_DecisionRule ==
    ( /\ pc = "sleep"
      /\ branch # "fetch_error"
      /\ ~(position.found /\ position.szi # 0)
      /\ Len(window_before) = DON_MAX_PERIOD )
    => /\ branch = "long" <=> current_price > SeqMax(window_before)
       /\ branch = "short" <=> current_price < SeqMin(window_before)

\* The seconds slept between the end of the iteration's work and the next
\* fetch: the sleeps inside run_trading_strategy, then the one of line 357.
IterationSleepSeconds == (sleeps + 1) * REQUEST_INTERVAL_SECONDS

\* C11: whatever branch the iteration took, the loop sleeps exactly one
\* polling interval before the next iteration's fetch.
C11_OneIntervalPerIteration ==
    pc = "sleep" => IterationSleepSeconds = REQUEST_INTERVAL_SECONDS

\* C13: with a full window, no open position and current_price = 0,
\* calculate_position_size returns the minimum size and no exception reaches
\* run_trading_strategy.
C13_ZeroPriceFallsBackToMinimum ==
    ( /\ pc = "sleep"
      /\ branch # "fetch_error"
      /\ ~(position.found /\ position.szi # 0)
      /\ Len(window_before) = DON_MAX_PERIOD
      /\ current_price = 0 )
    => /\ ~raised
       /\ \A b \in Balances :
             calculate_position_size(b, current_price)
                 = [raised |-> FALSE, size |-> MIN_POSITION_SIZE]

\* C14: every entry market order carries a size that is positive and not
\* below the minimum tradable size.
C14_EntrySizeAtLeastMinimum ==
    \A i \in 1..Len(orders) :
        orders[i].kind = "market" =>
            (orders[i].sz > 0 /\ orders[i].sz >= MIN_POSITION_SIZE)

\* A collaborator call failed in the iteration: an exception reached the
\* main loop, or buy / sell caught one and returned False.
IterationFailed == pc = "sleep" /\ (raised \/ ret = "False")

\* C12: a failed collaborator call never stops the loop.  After an iteration
\* in which one failed the loop is not stuck: its next step, the sleep of
\* line 357 that leads to the next iteration, can be taken; and at the top
\* of the loop an iteration can always begin.
C12_LoopGoesOnAfterFailure ==
    /\ IterationFailed => ENABLED Sleep
    /\ pc = "sleep" => ENABLED Sleep
    /\ pc = "call" => ENABLED RunIteration

\* an exception escaped run_trading_strategy
C12_Witness ==
    /\ pc = "sleep"
    /\ raised
    /\ branch = "sizing_error"

\* C15: the window never holds more than DON_MAX_PERIOD prices; an append to
\* a window that is not full adds the price at the end, so the length grows
\* by one with every append since the last clear; an append to a full window
\* removes the oldest price and keeps the others in their order.
C15_WindowIsFifo ==
    /\ Len(last_prices) <= DON_MAX_PERIOD
    /\ branch = "collecting" =>
          /\ Len(last_prices) = Len(window_before) + 1
          /\ last_prices = Append(window_before, current_price)
    /\ branch = "no_signal" =>
          /\ Len(window_before) = DON_MAX_PERIOD
          /\ Len(last_prices) = DON_MAX_PERIOD
          /\ \A i \in 1..(DON_MAX_PERIOD - 1) :
                last_prices[i] = window_before[i + 1]
          /\ last_prices[DON_MAX_PERIOD] = current_price
    /\ Attempt => Len(last_prices) = 1

\* an append to a full window evicted a price that differs from its successor
C15_Witness ==
    /\ branch = "no_signal"
    /\ Len(window_before) = DON_MAX_PERIOD
    /\ window_before[1] # window_before[2]
    /\ window_before[DON_MAX_PERIOD] # current_price

\* C16: every stop-loss and take-profit order is reduce-only, is a
\* market-on-trigger order tagged sl or tp, has the direction opposite to the
\* entry order of the iteration, and has the size of that entry order.
C16_ExitOrdersMirrorEntry ==
    \A i \in 1..Len(orders) :
        orders[i].kind = "trigger" =>
            /\ orders[1].kind = "market"
            /\ orders[i].reduce_only
            /\ orders[i].is_market
            /\ orders[i].tpsl = (IF i = 2 THEN "sl" ELSE "tp")
            /\ orders[i].is_buy = ~orders[1].is_buy
            /\ orders[i].sz = orders[1].sz

\* a sell entry followed by its two exit orders, with a nonzero size
C16_Witness ==
    /\ branch = "short"
    /\ Len(orders) = 3
    /\ orders[1].sz > 0
    /\ orders[2].is_buy
    /\ orders[3].is_buy

\* C17: the window is cleared only in an iteration in which a signal fired,
\* and once; an iteration without a signal clears nothing and removes at most
\* the price that the append evicts.
C17_ClearOnlyOnSignal ==
    /\ clears <= 1
    /\ clears = 1 <=> Attempt
    /\ (pc = "sleep" /\ ~Attempt) =>
          \/ last_prices = window_before
          \/ last_prices = Append(window_before, current_price)
          \/ /\ Len(window_before) = DON_MAX_PERIOD
             /\ last_prices = Append(Tail(window_before), current_price)

\* a full window, no breakout: nothing is cleared
C17_Witness ==
    /\ branch = "no_signal"
    /\ clears = 0
    /\ Len(last_prices) = DON_MAX_PERIOD

\* C19: an iteration that ends with an exception reaching the main loop
\* leaves the window as it was when the iteration started.
C19_ExceptionKeepsWindow ==
    raised => (last_prices = window_before /\ clears = 0)

\* the sizing raised on a full window
C19_Witness ==
    /\ raised
    /\ branch = "sizing_error"
    /\ Len(window_before) = DON_MAX_PERIOD

\* C20: an iteration in which an open position is reported leaves the window
\* unchanged: the price of that iteration is not appended.
C20_OpenPositionKeepsWindow ==
    (position.found /\ position.szi # 0) => last_prices = window_before

\* a position is open, the window is partly filled, the price is a new one
C20_Witness ==
    /\ branch = "open_position"
    /\ ~raised
    /\ Len(window_before) >= 1
    /\ Len(window_before) < DON_MAX_PERIOD
    /\ current_price # window_before[Len(window_before)]

\* the truncated fill price of the entry order of the iteration
EntryPriceOf(os) == IntOfAvgPx(os[1].avgPx2)

\* C18, as stated: in every attempt that reaches exit submission the exit
\* prices bracket the truncated entry price strictly, whatever the entry
\* price: stop < entry < take-profit after a buy, take-profit < entry < stop
\* after a sell.
C18_ExitsBracketEntryStrictly ==
    \A i \in 2..Len(orders) :
        LET e == EntryPriceOf(orders)
            above == orders[i].px > e
            below == orders[i].px < e
        IN IF orders[1].is_buy
           THEN (IF orders[i].tpsl = "sl" THEN below ELSE above)
           ELSE (IF orders[i].tpsl = "sl" THEN above ELSE below)

\* C18, amended: the exit prices bracket the truncated entry price, strictly
\* only from a certain entry price on.  The stop of a buy and the take-profit
\* of a sell are below the entry price when it is at least 1; the
\* take-profit of a buy is above it when it is at least 50, the stop of a
\* sell when it is at least 100.  Below these prices the truncation to
\* integers makes the exit price equal to the entry price.
C18_ExitsBracketEntry ==
    \A i \in 2..Len(orders) :
        LET e == EntryPriceOf(orders)
            x == orders[i].px
            under == x <= e /\ (e >= 1 => x < e)
        IN IF orders[1].is_buy
           THEN IF orders[i].tpsl = "sl"
                THEN under
                ELSE x >= e /\ (e >= 50 => x > e) /\ (e < 50 => x = e)
           ELSE IF orders[i].tpsl = "sl"
                THEN x >= e /\ (e >= 100 => x > e) /\ (e < 100 => x = e)
                ELSE under

\* a sell at 100 or more with both exits submitted, the stop above the entry
C18_Witness ==
    /\ branch = "short"
    /\ Len(orders) = 3
    /\ EntryPriceOf(orders) >= 100
    /\ orders[2].px > EntryPriceOf(orders)
    /\ orders[3].px < EntryPriceOf(orders)

====
